---- MODULE Spec2Model ----
(***************************************************************************)
(* A model of libsyntax/codemap.rs: the CodeMap (a registry of FileMaps    *)
(* laid end to end in one flat byte coordinate space), the FileMap         *)
(* bookkeeping the lexer appends to (line starts, multi-byte characters),  *)
(* and the lookups from an absolute BytePos to file / line / column,       *)
(* snippets and substitution-adjusted locations.                           *)
(*                                                                         *)
(* Indices are 0-based as in the source: File(fs, i) is fs[i] of the code. *)
(* A query's outcome is a record with ok = FALSE when the code reaches     *)
(* `fail`, a failing assert or an index out of bounds (the task aborts).   *)
(* BytePos and CharPos are uint; every value of the model stays far below  *)
(* the word size, and every subtraction of the code is of a smaller from a *)
(* larger operand in the states reached, so no arithmetic wraps.  The name *)
(* of a file takes no part in any lookup modelled here and is left out.    *)
(***************************************************************************)
EXTENDS Integers, Sequences, FiniteSets, TLC

VARIABLES
    files,   \* CodeMap.files: the registered FileMaps, in registration order
    res,     \* the outcome of the last completed query (NoRes after a mutation)
    call     \* the pending invocation of a recursive query (NoCall when none)

vars == <<files, res, call>>

----------------------------------------------------------------------------
(* Bounds of the model *)

\* files registered in the registry specification
MaxFiles == 3
\* bytes of a text registered in the registry specification
MaxLen == 2
\* files registered in the lexer specification
MaxLexFiles == 2
\* files registered in the substitution specification
MaxAdjFiles == 3
\* bytes of a text registered in the substitution specification
MaxAdjLen == 2
\* bytes of a text registered in the substitution specification with fairness
MaxFairLen == 1

----------------------------------------------------------------------------
(* The registry.  The src of a file is the sequence of its bytes: "nl" is  *)
(* the newline byte; "w2", "w3", "w4" are the lead bytes of characters     *)
(* encoded in 2, 3 and 4 bytes and "+" is a continuation byte; every       *)
(* other byte is a single-byte character.                                  *)

NoRes == [op |-> "none"]
NoCall == [op |-> "none"]
Fail == [ok |-> FALSE]

Min(a, b) == IF a <= b THEN a ELSE b

\* file i (0-based) of the registry fs
File(fs, i) == fs[i + 1]

\* src.len()
SrcLen(f) == Len(f.src)

\* one past the last byte of f in the flat coordinate space
EndPos(f) == f.start_pos + SrcLen(f)

\* one past the last byte of the whole registry (0 when it is empty)
TotalEnd(fs) == IF Len(fs) = 0 THEN 0 ELSE EndPos(fs[Len(fs)])

FssNone == [tag |-> "FssNone"]
FssInternal(lo, hi) == [tag |-> "FssInternal", lo |-> lo, hi |-> hi]
FssExternal(line, col) == [tag |-> "FssExternal", line |-> line, col |-> col]

----------------------------------------------------------------------------
(* CodeMap::new_filemap_w_substr and CodeMap::new_filemap *)

\* the start_pos given to the next registered file
NextStartPos(fs) ==
    IF Len(fs) = 0 THEN 0
    ELSE LET last_start == fs[Len(fs)].start_pos
             last_len == Len(fs[Len(fs)].src)
         IN  last_start + last_len

new_filemap_w_substr(substr, src) ==
    /\ call = NoCall
    /\ LET start_pos == NextStartPos(files)
           filemap == [substr |-> substr, src |-> src, start_pos |-> start_pos,
                       lines |-> <<>>, multibyte_chars |-> <<>>]
       IN  files' = Append(files, filemap)
    /\ res' = NoRes
    /\ UNCHANGED call

new_filemap(src) == new_filemap_w_substr(FssNone, src)

----------------------------------------------------------------------------
(* CodeMap::lookup_filemap_idx: the binary search over start_pos *)

\* the search with the comparison start_pos >= pos in place of start_pos > pos
RECURSIVE FilemapIdxLoopGe(_, _, _, _)
FilemapIdxLoopGe(fs, pos, a, b) ==
    IF b - a > 1
    THEN LET m == (a + b) \div 2
         IN  IF File(fs, m).start_pos >= pos
             THEN FilemapIdxLoopGe(fs, pos, a, m)
             ELSE FilemapIdxLoopGe(fs, pos, m, b)
    ELSE a

RECURSIVE FilemapIdxLoop(_, _, _, _)
FilemapIdxLoop(fs, pos, a, b) ==
    IF b - a > 1
    THEN LET m == (a + b) \div 2
         IN  IF File(fs, m).start_pos > pos
             THEN FilemapIdxLoop(fs, pos, a, m)
             ELSE FilemapIdxLoop(fs, pos, m, b)
    ELSE a

\* the lookup without the check a >= len that guards the empty registry
lookup_filemap_idx_unchecked(fs, pos) ==
    [ok |-> TRUE, idx |-> FilemapIdxLoop(fs, pos, 0, Len(fs))]

lookup_filemap_idx(fs, pos) ==
    LET len == Len(fs)
        a == FilemapIdxLoop(fs, pos, 0, len)
    IN  IF a >= len THEN Fail ELSE [ok |-> TRUE, idx |-> a]

----------------------------------------------------------------------------
(* CodeMap::lookup_byte_offset and CodeMap::span_to_snippet *)

lookup_byte_offset(fs, bpos) ==
    LET r == lookup_filemap_idx(fs, bpos)
    IN  IF ~r.ok THEN Fail
        ELSE LET fm == File(fs, r.idx)
                 offset == bpos - fm.start_pos
             IN  [ok |-> TRUE, fm |-> r.idx, pos |-> offset]

\* str::slice(s, begin, end): the bytes begin .. end-1 (0-based); it asserts
\* begin <= end and end <= len(s)
StrSlice(s, begin, end) ==
    IF begin <= end /\ end <= Len(s)
    THEN [ok |-> TRUE, str |-> SubSeq(s, begin + 1, end)]
    ELSE Fail

span_to_snippet(fs, lo, hi) ==
    LET begin == lookup_byte_offset(fs, lo)
        end == lookup_byte_offset(fs, hi)
    IN  IF ~begin.ok \/ ~end.ok THEN Fail
        ELSE IF File(fs, begin.fm).start_pos # File(fs, end.fm).start_pos
        THEN Fail
        ELSE StrSlice(File(fs, begin.fm).src, begin.pos, end.pos)

----------------------------------------------------------------------------
(* Queries: a call of a lookup, its outcome kept in res until the next     *)
(* mutation of the registry.  A query reads the registry only, so issuing  *)
(* it when no outcome is held (res = NoRes) reaches every pair of a        *)
(* registry and a query outcome.                                           *)

Positions(fs) == 0 .. (TotalEnd(fs) + 1)

QueryFilemapIdx(pos) ==
    /\ call = NoCall /\ res = NoRes
    /\ res' = [op |-> "lookup_filemap_idx", pos |-> pos,
               out |-> lookup_filemap_idx(files, pos)]
    /\ UNCHANGED <<files, call>>

QuerySnippet(lo, hi) ==
    /\ call = NoCall /\ res = NoRes
    /\ res' = [op |-> "span_to_snippet", lo |-> lo, hi |-> hi,
               out |-> span_to_snippet(files, lo, hi)]
    /\ UNCHANGED <<files, call>>

----------------------------------------------------------------------------
(* The registry specification: files of arbitrary short texts are          *)
(* registered and looked up by position and by span.                       *)

\* the texts registered: the first k bytes of Letters, for every k up to MaxLen
Letters == <<"a", "b", "c", "d", "e", "f">>
Texts == {SubSeq(Letters, 1, k) : k \in 0..MaxLen}

Init ==
    /\ files = <<>>
    /\ res = NoRes
    /\ call = NoCall

Next ==
    \/ \E src \in Texts : Len(files) < MaxFiles /\ new_filemap(src)
    \/ \E pos \in Positions(files) : QueryFilemapIdx(pos)
    \/ \E lo \in Positions(files) : \E hi \in lo .. (TotalEnd(files) + 1) :
          QuerySnippet(lo, hi)

Spec == Init /\ [][Next]_vars

----------------------------------------------------------------------------
(* FileMap::next_line and FileMap::record_multibyte_char, on file i *)

next_line(i, pos) ==
    /\ call = NoCall
    /\ files' = [files EXCEPT ![i + 1].lines = Append(@, pos)]
    /\ res' = NoRes
    /\ UNCHANGED call

\* the record pushed by record_multibyte_char
MultiByteChar(mbcs, pos, bytes) ==
    LET sum == IF Len(mbcs) > 0 THEN mbcs[Len(mbcs)].sum ELSE 0
    IN  [pos |-> pos, bytes |-> bytes, sum |-> sum + bytes]

record_multibyte_char(i, pos, bytes) ==
    /\ call = NoCall
    /\ bytes >= 2 /\ bytes <= 4          \* the assert: nothing is recorded otherwise
    /\ files' = [files EXCEPT ![i + 1].multibyte_chars =
                    Append(@, MultiByteChar(@, pos, bytes))]
    /\ res' = NoRes
    /\ UNCHANGED call

----------------------------------------------------------------------------
(* CodeMap::bytepos_to_local_charpos *)

\* the loop over map.multibyte_chars from entry k on: it adds mbc.bytes for
\* every entry before bpos, asserts that bpos is not inside the character,
\* and breaks at the first entry at or after bpos
RECURSIVE CharPosLoop(_, _, _, _)
CharPosLoop(mbcs, k, bpos, total_extra_bytes) ==
    IF k > Len(mbcs) THEN [ok |-> TRUE, extra |-> total_extra_bytes]
    ELSE LET mbc == mbcs[k]
         IN  IF mbc.pos < bpos
             THEN IF bpos = mbc.pos \/ bpos >= mbc.pos + mbc.bytes
                  THEN CharPosLoop(mbcs, k + 1, bpos,
                                   total_extra_bytes + mbc.bytes)
                  ELSE Fail
             ELSE [ok |-> TRUE, extra |-> total_extra_bytes]

bytepos_to_local_charpos(fs, bpos) ==
    LET r == lookup_filemap_idx(fs, bpos)
    IN  IF ~r.ok THEN Fail
        ELSE LET map == File(fs, r.idx)
                 l == CharPosLoop(map.multibyte_chars, 1, bpos, 0)
             IN  IF ~l.ok THEN Fail
                 ELSE [ok |-> TRUE, map |-> r.idx, extra |-> l.extra,
                       chpos |-> bpos - l.extra]

----------------------------------------------------------------------------
(* CodeMap::lookup_line and CodeMap::lookup_pos (lookup_char_pos) *)

\* the search with the comparison lines[m] >= pos in place of lines[m] > pos
RECURSIVE LineLoopGe(_, _, _, _)
LineLoopGe(lines, pos, a, b) ==
    IF b - a > 1
    THEN LET m == (a + b) \div 2
         IN  IF lines[m + 1] >= pos
             THEN LineLoopGe(lines, pos, a, m)
             ELSE LineLoopGe(lines, pos, m, b)
    ELSE a

\* the binary search over f.lines
RECURSIVE LineLoop(_, _, _, _)
LineLoop(lines, pos, a, b) ==
    IF b - a > 1
    THEN LET m == (a + b) \div 2
         IN  IF lines[m + 1] > pos
             THEN LineLoop(lines, pos, a, m)
             ELSE LineLoop(lines, pos, m, b)
    ELSE a

lookup_line(fs, pos) ==
    LET r == lookup_filemap_idx(fs, pos)
    IN  IF ~r.ok THEN Fail
        ELSE LET f == File(fs, r.idx)
             IN  [ok |-> TRUE, fm |-> r.idx,
                  line |-> LineLoop(f.lines, pos, 0, Len(f.lines))]

\* the column taken as the character offset itself, the line start's not
\* subtracted
LocColNoLineStart(chpos, linechpos) == chpos

\* col of the Loc: chpos - linechpos
LocCol(chpos, linechpos) == chpos - linechpos

lookup_pos(fs, pos) ==
    LET l == lookup_line(fs, pos)
    IN  IF ~l.ok THEN Fail
        ELSE
        LET f == File(fs, l.fm)
            a == l.line
            line == a + 1
            chpos == bytepos_to_local_charpos(fs, pos)
        IN  IF ~chpos.ok THEN Fail
            ELSE IF a >= Len(f.lines) THEN Fail    \* f.lines[a] out of bounds
            ELSE
            LET linebpos == f.lines[a + 1]
                linechpos == bytepos_to_local_charpos(fs, linebpos)
            IN  IF ~linechpos.ok THEN Fail
                ELSE IF ~(chpos.chpos >= linechpos.chpos) THEN Fail
                ELSE [ok |-> TRUE, file |-> l.fm, line |-> line,
                      col |-> LocCol(chpos.chpos, linechpos.chpos)]

lookup_char_pos(fs, pos) == lookup_pos(fs, pos)

QueryLocalCharPos(bpos) ==
    /\ call = NoCall /\ res = NoRes
    /\ res' = [op |-> "bytepos_to_local_charpos", pos |-> bpos,
               out |-> bytepos_to_local_charpos(files, bpos)]
    /\ UNCHANGED <<files, call>>

QueryCharPos(pos) ==
    /\ call = NoCall /\ res = NoRes
    /\ res' = [op |-> "lookup_char_pos", pos |-> pos,
               out |-> lookup_char_pos(files, pos)]
    /\ UNCHANGED <<files, call>>

----------------------------------------------------------------------------
(* The lexer specification: files are registered and scanned.  The lexer   *)
(* reports to a file, in increasing order, the start of each of its lines  *)
(* (start_pos, then the byte after each newline that has one) and each of  *)
(* its multi-byte characters (the position of the lead byte, the width);   *)
(* positions are looked up at any moment of the scan.                      *)

\* "héllo\nworld", 12 bytes: the 2-byte character at offset 1, the second
\* line at offset 7
Hello == <<"h", "w2", "+", "l", "l", "o", "nl", "w", "o", "r", "l", "d">>
\* one 3-byte character at offset 5, the next character at offset 8
Euro == <<"a", "b", "c", "d", "e", "w3", "+", "+", "f">>
LexSources == {<<>>, <<"a", "nl", "b">>, <<"w4", "+", "+", "+", "w2", "+">>,
               Hello, Euro}

IsLead(b) == b \in {"w2", "w3", "w4"}
Width(b) == CASE b = "w2" -> 2 [] b = "w3" -> 3 [] b = "w4" -> 4 [] OTHER -> 1

SetMin(S) == CHOOSE x \in S : \A y \in S : x <= y

\* the absolute positions at which the lines of f start
LineStartSet(f) ==
    {f.start_pos} \cup
    {f.start_pos + k : k \in {j \in 1 .. (Len(f.src) - 1) : f.src[j] = "nl"}}

\* the multi-byte characters of f: absolute position of the lead byte, width
WideCharSet(f) ==
    {[pos |-> f.start_pos + k - 1, bytes |-> Width(f.src[k])] :
        k \in {j \in 1 .. Len(f.src) : IsLead(f.src[j])}}

\* what the lexer reports next to f: the first line start, and the first
\* multi-byte character, not yet recorded
NextLineStart(f) ==
    LET todo == IF f.lines = <<>> THEN LineStartSet(f)
                ELSE {p \in LineStartSet(f) : p > f.lines[Len(f.lines)]}
    IN  IF todo = {} THEN {} ELSE {SetMin(todo)}

NextWideChar(f) ==
    LET n == Len(f.multibyte_chars)
        todo == IF n = 0 THEN WideCharSet(f)
                ELSE {m \in WideCharSet(f) : m.pos > f.multibyte_chars[n].pos}
    IN  IF todo = {} THEN {}
        ELSE {m \in todo : m.pos = SetMin({x.pos : x \in todo})}

NextLex ==
    \/ \E src \in LexSources : Len(files) < MaxLexFiles /\ new_filemap(src)
    \/ \E i \in 0 .. (Len(files) - 1) : \E pos \in NextLineStart(File(files, i)) :
          next_line(i, pos)
    \/ \E i \in 0 .. (Len(files) - 1) : \E m \in NextWideChar(File(files, i)) :
          record_multibyte_char(i, m.pos, m.bytes)
    \/ \E pos \in Positions(files) : QueryLocalCharPos(pos)
    \/ \E pos \in Positions(files) : QueryCharPos(pos)

SpecLex == Init /\ [][NextLex]_vars

----------------------------------------------------------------------------
(* CodeMap::lookup_char_pos_adj and CodeMap::adjust_span.  Both recurse    *)
(* through FssInternal files; an invocation in progress is held in call    *)
(* (the current position or span, and the indices of the FssInternal files *)
(* passed through so far, one per level of recursion), and one step is one *)
(* evaluation of the function body.  The registry is not touched while a   *)
(* call is in progress.  A level that recurses on the very arguments it   *)
(* was given never returns (the functions read nothing else): it is the    *)
(* step that leaves call as it is.                                         *)

\* levels of recursion the model follows: more than any resolution that ends
\* takes within the bounds, so only an endless recursion is cut
MaxDepth == MaxAdjFiles * MaxAdjLen + 2

\* the position with the file's start_pos not subtracted
AdjPosNoRebase(sp, pos, f) == sp.lo + pos

\* the position recursed on: sp.lo + (pos - loc.file.start_pos)
AdjPos(sp, pos, f) == sp.lo + (pos - f.start_pos)

CallCharPosAdj(pos) ==
    /\ call = NoCall /\ res = NoRes
    /\ call' = [op |-> "lookup_char_pos_adj", pos0 |-> pos, pos |-> pos,
                visited |-> <<>>]
    /\ UNCHANGED <<files, res>>

\* the value returned by lookup_char_pos_adj from loc, the Loc of a position
\* in a file f that is not FssInternal (for FssExternal the code returns
\* file: None; the record keeps the index of the file stopped in and says
\* external instead)
CharPosAdjResult(loc, f) ==
    IF f.substr.tag = "FssNone"
    THEN [ok |-> TRUE, external |-> FALSE, file |-> loc.file,
          line |-> loc.line, col |-> loc.col]
    ELSE [ok |-> TRUE, external |-> TRUE, file |-> loc.file,
          line |-> f.substr.line + loc.line - 1,
          col |-> IF loc.line = 1 THEN f.substr.col + loc.col ELSE loc.col]

StepCharPosAdj ==
    /\ call.op = "lookup_char_pos_adj"
    /\ \E loc \in {lookup_char_pos(files, call.pos)} :
          IF ~loc.ok \/ File(files, loc.file).substr.tag # "FssInternal"
          THEN /\ res' = [op |-> "lookup_char_pos_adj", pos |-> call.pos0,
                          visited |-> call.visited,
                          out |-> IF ~loc.ok THEN Fail
                                  ELSE CharPosAdjResult(loc, File(files, loc.file))]
               /\ call' = NoCall
          ELSE /\ Len(call.visited) < MaxDepth
               /\ \E pos \in {AdjPos(File(files, loc.file).substr, call.pos,
                                     File(files, loc.file))} :
                     call' = IF pos = call.pos THEN call
                             ELSE [call EXCEPT !.pos = pos,
                                               !.visited = Append(@, loc.file)]
               /\ UNCHANGED res
    /\ UNCHANGED files

CallAdjustSpan(lo, hi) ==
    /\ call = NoCall /\ res = NoRes
    /\ call' = [op |-> "adjust_span", lo0 |-> lo, hi0 |-> hi, lo |-> lo,
                hi |-> hi, visited |-> <<>>]
    /\ UNCHANGED <<files, res>>

StepAdjustSpan ==
    /\ call.op = "adjust_span"
    /\ \E line \in {lookup_line(files, call.lo)} :
          IF ~line.ok \/ File(files, line.fm).substr.tag # "FssInternal"
          THEN /\ res' = [op |-> "adjust_span", lo |-> call.lo0, hi |-> call.hi0,
                          visited |-> call.visited,
                          out |-> IF ~line.ok THEN Fail
                                  ELSE [ok |-> TRUE, lo |-> call.lo, hi |-> call.hi]]
               /\ call' = NoCall
          ELSE /\ Len(call.visited) < MaxDepth
               /\ \E lo \in {AdjPos(File(files, line.fm).substr, call.lo,
                                    File(files, line.fm))} :
                  \E hi \in {AdjPos(File(files, line.fm).substr, call.hi,
                                    File(files, line.fm))} :
                     call' = IF lo = call.lo /\ hi = call.hi THEN call
                             ELSE [call EXCEPT !.lo = lo, !.hi = hi,
                                               !.visited = Append(@, line.fm)]
               /\ UNCHANGED res
    /\ UNCHANGED files

----------------------------------------------------------------------------
(* The substitution specification: files are registered with an origin     *)
(* (none, an external location, or a span of the text registered so far),  *)
(* the lexer reports their line starts, and positions and spans are        *)
(* resolved through the origins.  The reader of a file reports its first   *)
(* line as it starts, before the parser it feeds registers another file.   *)

AdjLetters == <<"a", "nl", "b", "c", "d", "e">>
AdjTexts == {SubSeq(AdjLetters, 1, k) : k \in 1..MaxAdjLen}
FairTexts == {SubSeq(AdjLetters, 1, k) : k \in 1..MaxFairLen}

\* the positions of the registered text
InRange(fs) == 0 .. (TotalEnd(fs) - 1)

\* the origins a file registered next can be given: a span lies in the text
\* registered so far, lo <= hi <= the start_pos of the new file, and is no
\* longer than the longest text
Origins(fs) ==
    {FssNone, FssExternal(3, 2)} \cup
    UNION {{FssInternal(lo, hi) : hi \in lo .. Min(lo + MaxAdjLen, NextStartPos(fs))} :
              lo \in 0 .. NextStartPos(fs)}

NextAdjOver(texts) ==
    \/ \E src \in texts : \E substr \in Origins(files) :
          /\ Len(files) < MaxAdjFiles
          /\ \A i \in 1 .. Len(files) : files[i].lines # <<>>
          /\ new_filemap_w_substr(substr, src)
    \/ \E i \in 0 .. (Len(files) - 1) : \E pos \in NextLineStart(File(files, i)) :
          next_line(i, pos)
    \/ \E pos \in InRange(files) : CallCharPosAdj(pos)
    \/ StepCharPosAdj
    \/ \E lo \in InRange(files) : \E hi \in lo .. (lo + 1) :
          CallAdjustSpan(lo, hi)
    \/ StepAdjustSpan

NextAdj == NextAdjOver(AdjTexts)

SpecAdj == Init /\ [][NextAdj]_vars

\* the same with shorter texts, and a call in progress run to its end: the
\* functions are synchronous, a level of recursion that can be taken is taken
NextAdjFair == NextAdjOver(FairTexts)

FairSpecAdj ==
    Init /\ [][NextAdjFair]_vars
         /\ WF_vars(StepCharPosAdj) /\ WF_vars(StepAdjustSpan)

----------------------------------------------------------------------------
(* Properties of the registry *)

FileIdx(fs) == 0 .. (Len(fs) - 1)

\* p lies in the byte range [start_pos, start_pos + len(src)) of f
InFile(f, p) == f.start_pos <= p /\ p < EndPos(f)

\* the byte ranges of f and g share no position
Disjoint(f, g) == ~ \E p \in 0 .. TotalEnd(files) : InFile(f, p) /\ InFile(g, p)

\* C1: for every pair of files F1 before F2 in registration order,
\* F1.start_pos < F2.start_pos and the byte ranges of the two are disjoint
\* (texts of any length, the empty text included).
C1_StartPosStrictlyIncreasing ==
    \A i \in FileIdx(files) : \A j \in FileIdx(files) :
        i < j => /\ File(files, i).start_pos < File(files, j).start_pos
                 /\ Disjoint(File(files, i), File(files, j))

\* the greatest index whose start_pos <= p (defined when the registry is not empty)
GreatestStartLe(fs, p) ==
    CHOOSE i \in FileIdx(fs) :
        /\ File(fs, i).start_pos <= p
        /\ \A j \in FileIdx(fs) : File(fs, j).start_pos <= p => j <= i

\* C2: for every file F and every position p in F's byte range (p = F.start_pos
\* included), lookup_filemap_idx(p) returns F's index, which is the greatest
\* index whose start_pos <= p.
C2_FindsOwningFile ==
    res.op = "lookup_filemap_idx" =>
        \A i \in FileIdx(files) :
            InFile(File(files, i), res.pos) =>
                /\ res.out.ok
                /\ res.out.idx = i
                /\ res.out.idx = GreatestStartLe(files, res.pos)

\* C2, witness: a lookup of the first byte of a non-empty file that is not
\* the first one
C2_Witness ==
    /\ res.op = "lookup_filemap_idx"
    /\ \E i \in FileIdx(files) :
           /\ i >= 1
           /\ SrcLen(File(files, i)) > 0
           /\ res.pos = File(files, i).start_pos
           /\ res.out.ok /\ res.out.idx = i

\* lo .. hi is a span of f: f.start_pos <= lo <= hi <= f.start_pos + len(f.src)
SpanOf(f, lo, hi) == f.start_pos <= lo /\ lo <= hi /\ hi <= EndPos(f)

\* C7: for every file F and every span (lo, hi) with
\* F.start_pos <= lo <= hi <= F.start_pos + len(F.src), span_to_snippet returns
\* the bytes of F.src from local offset lo - F.start_pos up to (excluding)
\* hi - F.start_pos, also when hi is the end of F and files follow F.
C7_SnippetIsSubstring ==
    res.op = "span_to_snippet" =>
        \A i \in FileIdx(files) :
            LET f == File(files, i)
            IN  SpanOf(f, res.lo, res.hi) =>
                    /\ res.out.ok
                    /\ res.out.str = SubSeq(f.src, res.lo - f.start_pos + 1,
                                            res.hi - f.start_pos)

\* p lies in no registered file's byte range
OutOfRange(fs, p) == \A i \in FileIdx(fs) : ~InFile(File(fs, i), p)

\* C8: lookup_filemap_idx fails for every position that lies in no registered
\* file's byte range: in the empty registry, and at or beyond the end of the
\* last file.
C8_FailsOutOfRange ==
    (res.op = "lookup_filemap_idx" /\ OutOfRange(files, res.pos)) => ~res.out.ok

\* C8 as amended: lookup_filemap_idx fails exactly when the registry is empty;
\* in a registry with files, a position at or beyond the end of the last file
\* returns the last index (the greatest index whose start_pos <= pos).
C8_FailsOnlyWhenEmpty ==
    res.op = "lookup_filemap_idx" =>
        /\ res.out.ok <=> Len(files) > 0
        /\ (Len(files) > 0 /\ res.pos >= TotalEnd(files)) =>
               res.out.idx = Len(files) - 1

\* C8, witness: a lookup beyond the end of the last of several files, which
\* returns that file
C8_Witness ==
    /\ res.op = "lookup_filemap_idx"
    /\ Len(files) >= 2
    /\ res.pos > TotalEnd(files)
    /\ res.out.ok /\ res.out.idx = Len(files) - 1

----------------------------------------------------------------------------
(* Properties of the character offsets and locations *)

\* the sum of (bytes - 1) over the entries of mbcs whose pos is before bpos
RECURSIVE SumWidthMinusOne(_, _)
SumWidthMinusOne(mbcs, bpos) ==
    IF mbcs = <<>> THEN 0
    ELSE (IF Head(mbcs).pos < bpos THEN Head(mbcs).bytes - 1 ELSE 0)
         + SumWidthMinusOne(Tail(mbcs), bpos)

\* C3: bytepos_to_local_charpos(pos) subtracts from the byte offset the sum of
\* (width - 1) over the multi-byte characters recorded before pos in the
\* owning file: after one 3-byte character the character offset is 2 less
\* than the byte offset.
C3_SubtractsWidthMinusOne ==
    (res.op = "bytepos_to_local_charpos" /\ res.out.ok) =>
        /\ res.out.extra =
              SumWidthMinusOne(File(files, res.out.map).multibyte_chars, res.pos)
        /\ res.pos - res.out.chpos = res.out.extra

\* C4: for every file F with no multi-byte character recorded, whatever its
\* index, and every position p in F's byte range,
\* bytepos_to_local_charpos(p) = p - F.start_pos.
C4_RelativeToOwningFile ==
    res.op = "bytepos_to_local_charpos" =>
        \A i \in FileIdx(files) :
            LET f == File(files, i)
            IN  (InFile(f, res.pos) /\ f.multibyte_chars = <<>>) =>
                    res.out.ok /\ res.out.chpos = res.pos - f.start_pos

\* f holds single-byte characters only
SingleByteOnly(f) == \A k \in 1 .. Len(f.src) : Width(f.src[k]) = 1

\* the index (0-based) of the greatest recorded line start <= p
GreatestLineLe(f, p) ==
    CHOOSE a \in 0 .. (Len(f.lines) - 1) :
        /\ f.lines[a + 1] <= p
        /\ \A b \in 0 .. (Len(f.lines) - 1) : f.lines[b + 1] <= p => b <= a

\* the line starts of f were recorded in strictly increasing order, the
\* first being start_pos
LinesRecorded(f) ==
    /\ Len(f.lines) >= 1
    /\ f.lines[1] = f.start_pos
    /\ \A k \in 1 .. (Len(f.lines) - 1) : f.lines[k] < f.lines[k + 1]

\* C5: in a file of single-byte characters whose line starts were recorded,
\* whatever files precede it, lookup_char_pos(p) of a position p of the file
\* returns line = 1 + the index of the greatest recorded line start <= p and
\* col = p - that line start.
C5_LineAndByteColumn ==
    res.op = "lookup_char_pos" =>
        \A i \in FileIdx(files) :
            LET f == File(files, i)
            IN  (InFile(f, res.pos) /\ SingleByteOnly(f) /\ LinesRecorded(f)) =>
                    /\ res.out.ok
                    /\ res.out.file = i
                    /\ res.out.line = 1 + GreatestLineLe(f, res.pos)
                    /\ res.out.col = res.pos - f.lines[res.out.line]

\* C5, witness: the start of the second line of a two-line file that other
\* text precedes
C5_Witness ==
    /\ res.op = "lookup_char_pos"
    /\ \E i \in FileIdx(files) :
          LET f == File(files, i)
          IN  /\ i >= 1 /\ f.start_pos > 0
              /\ InFile(f, res.pos) /\ SingleByteOnly(f) /\ LinesRecorded(f)
              /\ Len(f.lines) = 2 /\ res.pos = f.lines[2]
              /\ res.out.ok /\ res.out.line = 2 /\ res.out.col = 0

\* the scenario of C6: the one file Hello at 0, line starts 0 and 7 recorded,
\* the 2-byte character at 1 recorded, and position 8 looked up
C6_Scenario ==
    /\ Len(files) = 1
    /\ files[1].src = Hello /\ files[1].start_pos = 0
    /\ files[1].lines = <<0, 7>>
    /\ Len(files[1].multibyte_chars) = 1
    /\ files[1].multibyte_chars[1].pos = 1
    /\ files[1].multibyte_chars[1].bytes = 2
    /\ res.op = "lookup_char_pos" /\ res.pos = 8

\* C6: in that registry lookup_char_pos(8) returns line 2 and column 0.
C6_Line2Col0 ==
    C6_Scenario => (res.out.ok /\ res.out.line = 2 /\ res.out.col = 0)

\* C6 as amended: in that registry lookup_char_pos(8) returns line 2 and
\* column 1 (position 8 is one character after the line start 7).
C6_Line2Col1 ==
    C6_Scenario => (res.out.ok /\ res.out.line = 2 /\ res.out.col = 1)

\* C6, witness: the scenario is reached and the lookup returns
C6_Witness == C6_Scenario /\ res.out.ok

----------------------------------------------------------------------------
(* Properties of the resolution through origins *)

IsInternal(f) == f.substr.tag = "FssInternal"

\* every FssInternal file's span starts before the file itself
OriginsPointBack(fs) ==
    \A i \in FileIdx(fs) :
        IsInternal(File(fs, i)) => File(fs, i).substr.lo < File(fs, i).start_pos

\* every file has its first line start recorded
FirstLinesRecorded(fs) == \A i \in FileIdx(fs) : File(fs, i).lines # <<>>

Resolving == call.op \in {"lookup_char_pos_adj", "adjust_span"}
Resolved == res.op \in {"lookup_char_pos_adj", "adjust_span"}

\* the file a finished resolution stopped in
StoppedIn ==
    IF res.op = "lookup_char_pos_adj" THEN File(files, res.out.file)
    ELSE File(files, lookup_filemap_idx(files, res.out.lo).idx)

SpansInEarlierFiles(fs) ==
    \A i \in FileIdx(fs) :
        IsInternal(File(fs, i)) =>
            \E j \in FileIdx(fs) :
                /\ j < i
                /\ InFile(File(fs, j), File(fs, i).substr.lo)
                /\ File(fs, i).substr.lo <= File(fs, i).substr.hi
                /\ File(fs, i).substr.hi <= EndPos(File(fs, j))

\* no FssInternal file's text is longer than the span it stands for
TextsFitSpans(fs) ==
    \A i \in FileIdx(fs) :
        IsInternal(File(fs, i)) =>
            SrcLen(File(fs, i)) <= File(fs, i).substr.hi - File(fs, i).substr.lo

NumInternal(fs) == Cardinality({i \in FileIdx(fs) : IsInternal(File(fs, i))})

NoRepeat(seq) == \A k \in 1 .. Len(seq) : \A l \in 1 .. Len(seq) :
                    seq[k] = seq[l] => k = l

\* the call in progress recurses on its own arguments: it never returns
Endless ==
    /\ Resolving
    /\ LET r == lookup_filemap_idx(files, IF call.op = "adjust_span"
                                          THEN call.lo ELSE call.pos)
       IN  /\ r.ok
           /\ IsInternal(File(files, r.idx))
           /\ (call.op = "lookup_char_pos_adj" =>
                  lookup_char_pos(files, call.pos).ok)
           /\ AdjPos(File(files, r.idx).substr,
                     IF call.op = "adjust_span" THEN call.lo ELSE call.pos,
                     File(files, r.idx))
                = (IF call.op = "adjust_span" THEN call.lo ELSE call.pos)

\* the FssInternal files a resolution, finished or in progress, went through
Visited == IF Resolving THEN call.visited
           ELSE IF Resolved THEN res.visited ELSE <<>>

\* the steps are bounded by the FssInternal files, none passed twice
DepthBounded ==
    /\ ~Endless
    /\ Len(Visited) <= NumInternal(files)
    /\ NoRepeat(Visited)

\* C10: when every FssInternal span lies in an earlier-registered file,
\* resolving an in-range position takes at most as many recursive steps as
\* there are FssInternal files, each passed through at most once, also when
\* a substituted text is longer than its span.
C10_DepthBoundedByInternalFiles ==
    SpansInEarlierFiles(files) => DepthBounded

\* C10 as amended: the same, for registries in which no FssInternal file's
\* text is longer than its span.
C10_DepthBoundedWhenTextsFit ==
    (SpansInEarlierFiles(files) /\ TextsFitSpans(files)) => DepthBounded

\* C10, witness: a resolution through two FssInternal files whose texts fit
\* their spans
C10_Witness ==
    /\ Resolved
    /\ SpansInEarlierFiles(files) /\ TextsFitSpans(files)
    /\ NumInternal(files) = 2
    /\ Len(res.visited) = 2

====
